---- MODULE Spec2Model ----
(***************************************************************************)
(* Model of FixTitlesBot (fix_titles.py): the title extractor _get_title,  *)
(* the renderer _get_title_text and the hierarchy fixer _full_fix with its *)
(* helpers level_zero_fix, first_title_fix and _semi_fix.                  *)
(*                                                                         *)
(* A Title is a record [name, level].  In the fixer the names are opaque   *)
(* strings; in the extractor/renderer a name and a line are sequences of   *)
(* one-character strings.  Python list indices are 0-based: title_index is *)
(* kept 0-based and element title_index of a list is Seq[title_index + 1]. *)
(***************************************************************************)
EXTENDS Integers, Sequences, FiniteSets, TLC

VARIABLES
    titles,         \* argument of the current _full_fix call
    title_list,     \* _full_fix: local title_list
    new_titles,     \* _full_fix: local new_titles (the value returned)
    fixed_titles,   \* _semi_fix: local fixed_titles
    title_index,    \* _semi_fix: local title_index (0-based)
    prev_level,     \* _semi_fix: local prev_level
    current_level,  \* _semi_fix: local current_level
    pc,             \* position inside _full_fix / _semi_fix
    call,           \* 1: _full_fix(s), 2: _full_fix(_full_fix(s))
    t,              \* renderer: the Title handed to _get_title_text
    line,           \* renderer/extractor: the text produced / parsed
    parsed,         \* extractor: result of _get_title(line)
    tpc             \* position of the render/extract run

vars == <<titles, title_list, new_titles, fixed_titles, title_index,
          prev_level, current_level, pc, call, t, line, parsed, tpc>>

fixVars == <<titles, title_list, new_titles, fixed_titles, title_index,
             prev_level, current_level, pc, call>>

textVars == <<t, line, parsed, tpc>>

----------------------------------------------------------------------------
(* Bounds of the explored inputs *)

MaxLen == 4
MaxDepth == 4
MaxNameLen == 3
MaxLevel == 3

Names == {"a", "b"}
Chars == {"=", "a", " "}

Title(name, level) == [name |-> name, level |-> level]

SeqsUpTo(S, n) == UNION {[1..k -> S] : k \in 0..n}

InputTitles == [name : Names, level : 0..MaxDepth]

InputLists == SeqsUpTo(InputTitles, MaxLen)

FairInputLists == SeqsUpTo([name : {"a"}, level : 0..MaxDepth], MaxLen)

----------------------------------------------------------------------------
(* level_zero_fix: every title whose level is 0 appends a copy of the      *)
(* whole list, each level raised by one, to new_titles.                    *)

\* variant: the promotion raises by two
Promote_Two(title) == Title(title.name, title.level + 2)

Promote(title) == Title(title.name, title.level + 1)

PromoteAll(ts) == [i \in 1..Len(ts) |-> Promote(ts[i])]

RECURSIVE LevelZeroLoop(_, _, _)
LevelZeroLoop(ts, i, acc) ==
    IF i > Len(ts) THEN acc
    ELSE IF ts[i].level = 0
         THEN LevelZeroLoop(ts, i + 1, acc \o PromoteAll(ts))
         ELSE LevelZeroLoop(ts, i + 1, acc)

\* variant: the promotion is applied whether or not a level 0 is present
level_zero_fix_Always(ts) ==
    IF ts # <<>> THEN PromoteAll(ts) ELSE ts

level_zero_fix(ts) ==
    LET new == LevelZeroLoop(ts, 1, <<>>)
    IN  IF new # <<>> THEN new ELSE ts

\* variant: the first title is left as it is
first_title_fix_Skip(ts) == ts

(* first_title_fix *)
first_title_fix(ts) ==
    IF ts # <<>> /\ ts[1].level # 1
    THEN <<Title(ts[1].name, 1)>> \o Tail(ts)
    ELSE ts

(* _semi_fix: the test  current_level > prev_level + 1 *)
\* variant: a rise of two levels is tolerated
IsJump_Loose(cur, prev) == cur > prev + 2

IsJump(cur, prev) == cur > prev + 1

(* _semi_fix: the title appended by the inner while *)
\* variant: the inner while lowers by two
Decrement_Two(title) == Title(title.name, title.level - 2)

Decrement(title) == Title(title.name, title.level - 1)

(* _full_fix: the test  new_titles == title_list *)
\* variant: identity comparison, never true of a freshly built list
SameList_Identity(new, old) == FALSE

SameList(new, old) == new = old

CurTitle == title_list[title_index + 1]

----------------------------------------------------------------------------
(* _full_fix *)

LevelZeroFix ==
    /\ pc = "level_zero"
    /\ title_list' = level_zero_fix(titles)
    /\ pc' = "first_title"
    /\ UNCHANGED <<titles, new_titles, fixed_titles, title_index,
                   prev_level, current_level, call>>
    /\ UNCHANGED textVars

FirstTitleFix ==
    /\ pc = "first_title"
    /\ title_list' = first_title_fix(title_list)
    /\ fixed_titles' = <<>>
    /\ title_index' = 0
    /\ prev_level' = 0
    /\ pc' = "outer"
    /\ UNCHANGED <<titles, new_titles, current_level, call>>
    /\ UNCHANGED textVars

(* _semi_fix, outer while: a title that is no jump is copied *)
SemiFixKeep ==
    /\ pc = "outer"
    /\ title_index < Len(title_list)
    /\ ~IsJump(CurTitle.level, prev_level)
    /\ current_level' = CurTitle.level
    /\ fixed_titles' = Append(fixed_titles, Title(CurTitle.name, CurTitle.level))
    /\ prev_level' = CurTitle.level
    /\ title_index' = title_index + 1
    /\ UNCHANGED <<titles, title_list, new_titles, pc, call>>
    /\ UNCHANGED textVars

(* _semi_fix, outer while: a jump enters the inner while *)
SemiFixJump ==
    /\ pc = "outer"
    /\ title_index < Len(title_list)
    /\ IsJump(CurTitle.level, prev_level)
    /\ current_level' = CurTitle.level
    /\ pc' = "inner"
    /\ UNCHANGED <<titles, title_list, new_titles, fixed_titles,
                   title_index, prev_level, call>>
    /\ UNCHANGED textVars

(* inner while: the visited title is lowered by one *)
InnerDecrement ==
    /\ pc = "inner"
    /\ title_index < Len(title_list)
    /\ CurTitle.level # prev_level
    /\ fixed_titles' = Append(fixed_titles, Decrement(CurTitle))
    /\ title_index' = title_index + 1
    /\ UNCHANGED <<titles, title_list, new_titles, prev_level,
                   current_level, pc, call>>
    /\ UNCHANGED textVars

(* inner while: break at a title of level prev_level, which is copied *)
InnerBreak ==
    /\ pc = "inner"
    /\ title_index < Len(title_list)
    /\ CurTitle.level = prev_level
    /\ fixed_titles' = Append(fixed_titles, Title(CurTitle.name, CurTitle.level))
    /\ prev_level' = current_level
    /\ title_index' = title_index + 1
    /\ pc' = "outer"
    /\ UNCHANGED <<titles, title_list, new_titles, current_level, call>>
    /\ UNCHANGED textVars

(* inner while ran off the list: else branch, continue the outer while *)
InnerExhausted ==
    /\ pc = "inner"
    /\ title_index >= Len(title_list)
    /\ pc' = "outer"
    /\ UNCHANGED <<titles, title_list, new_titles, fixed_titles,
                   title_index, prev_level, current_level, call>>
    /\ UNCHANGED textVars

(* _semi_fix returns fixed_titles, assigned to new_titles *)
SemiFixReturn ==
    /\ pc = "outer"
    /\ title_index >= Len(title_list)
    /\ new_titles' = fixed_titles
    /\ pc' = "compare"
    /\ UNCHANGED <<titles, title_list, fixed_titles, title_index,
                   prev_level, current_level, call>>
    /\ UNCHANGED textVars

(* _full_fix: the pass changed nothing, return new_titles *)
FullFixBreak ==
    /\ pc = "compare"
    /\ SameList(new_titles, title_list)
    /\ pc' = "done"
    /\ UNCHANGED <<titles, title_list, new_titles, fixed_titles,
                   title_index, prev_level, current_level, call>>
    /\ UNCHANGED textVars

(* _full_fix: the pass changed something, run _semi_fix again *)
FullFixAgain ==
    /\ pc = "compare"
    /\ ~SameList(new_titles, title_list)
    /\ title_list' = new_titles
    /\ fixed_titles' = <<>>
    /\ title_index' = 0
    /\ prev_level' = 0
    /\ pc' = "outer"
    /\ UNCHANGED <<titles, new_titles, current_level, call>>
    /\ UNCHANGED textVars

(* _full_fix is called again on the list it returned *)
Reapply ==
    /\ pc = "done"
    /\ call = 1
    /\ call' = 2
    /\ titles' = new_titles
    /\ title_list' = new_titles
    /\ pc' = "level_zero"
    /\ UNCHANGED <<new_titles, fixed_titles, title_index, prev_level,
                   current_level>>
    /\ UNCHANGED textVars

InitWith(lists) ==
    /\ titles \in lists
    /\ title_list = titles
    /\ new_titles = <<>>
    /\ fixed_titles = <<>>
    /\ title_index = 0
    /\ prev_level = 0
    /\ current_level = 0
    /\ pc = "level_zero"
    /\ call = 1
    /\ t = Title(<<>>, 0)
    /\ line = <<>>
    /\ parsed = "None"
    /\ tpc = "idle"

Init == InitWith(InputLists)

(* the same calls on lists that repeat one name *)
InitFair == InitWith(FairInputLists)

Next ==
    \/ LevelZeroFix
    \/ FirstTitleFix
    \/ SemiFixKeep
    \/ SemiFixJump
    \/ InnerDecrement
    \/ InnerBreak
    \/ InnerExhausted
    \/ SemiFixReturn
    \/ FullFixBreak
    \/ FullFixAgain
    \/ Reapply

Spec == Init /\ [][Next]_vars

FairSpec == InitFair /\ [][Next]_vars /\ WF_vars(Next)

----------------------------------------------------------------------------
\* title_search: a run of "=", then text without "=", then a run of "=",
\* then at most one blank, anchored at both ends of the line.

Rep(c, n) == [i \in 1..(IF n > 0 THEN n ELSE 0) |-> c]

RECURSIVE LeadingRun(_, _)
LeadingRun(s, c) ==
    IF s # <<>> /\ Head(s) = c THEN 1 + LeadingRun(Tail(s), c) ELSE 0

RECURSIVE TrailingRun(_, _)
TrailingRun(s, c) ==
    IF s # <<>> /\ s[Len(s)] = c
    THEN 1 + TrailingRun(SubSeq(s, 1, Len(s) - 1), c)
    ELSE 0

(* the line without the one blank that [ ]? may consume *)
Core(s) ==
    IF s # <<>> /\ s[Len(s)] = " " THEN SubSeq(s, 1, Len(s) - 1) ELSE s

(* lengths <<len(group 1), len(group 3)>> of the match, <<0, 0>> if none *)
Groups(s) ==
    LET c    == Core(s)
        lead == LeadingRun(c, "=")
        trail == TrailingRun(c, "=")
        mid  == SubSeq(c, lead + 1, Len(c) - trail)
    IN  IF lead = 0 \/ trail = 0 THEN <<0, 0>>
        ELSE IF lead = Len(c)
             THEN IF Len(c) >= 2 THEN <<Len(c) - 1, 1>> ELSE <<0, 0>>
        ELSE IF \E i \in 1..Len(mid) : mid[i] = "=" THEN <<0, 0>>
        ELSE <<lead, trail>>

Min(a, b) == IF a < b THEN a ELSE b

(* _get_title: group(0) is the whole line, trailing blank included *)
_get_title(s) ==
    LET g == Groups(s)
        true_level == Min(g[1], g[2])
    IN  IF g = <<0, 0>> THEN "None"
        ELSE Title(SubSeq(s, true_level + 1, Len(s) - true_level),
                   true_level - 1)

(* _get_title_text *)
_get_title_text(title) ==
    Rep("=", title.level) \o title.name \o Rep("=", title.level)

RenderTitles == [name : SeqsUpTo(Chars, MaxNameLen), level : 0..MaxLevel]

GetTitleText ==
    /\ tpc = "render"
    /\ line' = _get_title_text(t)
    /\ tpc' = "extract"
    /\ UNCHANGED <<t, parsed>>
    /\ UNCHANGED fixVars

GetTitle ==
    /\ tpc = "extract"
    /\ parsed' = _get_title(line)
    /\ tpc' = "extracted"
    /\ UNCHANGED <<t, line>>
    /\ UNCHANGED fixVars

InitText ==
    /\ titles = <<>>
    /\ title_list = <<>>
    /\ new_titles = <<>>
    /\ fixed_titles = <<>>
    /\ title_index = 0
    /\ prev_level = 0
    /\ current_level = 0
    /\ pc = "idle"
    /\ call = 1
    /\ t \in RenderTitles
    /\ line = <<>>
    /\ parsed = "None"
    /\ tpc = "render"

NextText ==
    \/ GetTitleText
    \/ GetTitle

SpecText == InitText /\ [][NextText]_vars

----------------------------------------------------------------------------
(* Vocabulary of the properties *)

HasZero(ts) == \E i \in 1..Len(ts) : ts[i].level = 0

NonNegative(ts) == \A i \in 1..Len(ts) : ts[i].level >= 0

(* the normalized-hierarchy conditions on a list of titles *)
Valid(ts) ==
    \/ ts = <<>>
    \/ /\ ts[1].level = 1
       /\ \A i \in 1..Len(ts) : ts[i].level # 0 /\ ts[i].level >= 1
       /\ \A i \in 1..(Len(ts) - 1) : ts[i + 1].level <= ts[i].level + 1

(* _full_fix has returned new_titles for an argument with levels >= 0 *)
Returned == pc = "done" /\ NonNegative(titles)

(* position i is an illegal jump after a valid prefix 1..i-1 *)
JumpAt(ts, i) ==
    /\ i \in 2..Len(ts)
    /\ Valid(SubSeq(ts, 1, i - 1))
    /\ ts[i].level > ts[i - 1].level + 1

PulledBack(ts, out, i) ==
    /\ Len(out) >= i
    /\ SubSeq(out, 1, i - 1) = SubSeq(ts, 1, i - 1)
    /\ out[i].level = ts[i - 1].level + 1
    /\ (i + 1 <= Len(ts) /\ ts[i + 1].level = ts[i - 1].level)
          => (Len(out) >= i + 1 /\ out[i + 1] = ts[i + 1])

NoBoundaryMarker(name) ==
    name = <<>> \/ (name[1] # "=" /\ name[Len(name)] # "=")

----------------------------------------------------------------------------
(* C1: in the list returned by _full_fix every title is at most one level  *)
(* deeper than the title before it.                                        *)
C1_AdjacentRiseAtMostOne ==
    Returned =>
        \A i \in 1..(Len(new_titles) - 1) :
            new_titles[i + 1].level <= new_titles[i].level + 1

C1_Witness ==
    /\ Returned /\ call = 1
    /\ \E i \in 1..(Len(titles) - 1) : titles[i + 1].level > titles[i].level + 2
    /\ \E i \in 1..(Len(new_titles) - 1) :
           new_titles[i + 1].level = new_titles[i].level + 1

(* C2: no title returned by _full_fix has level 0 or less: every returned  *)
(* level is at least 1.                                                    *)
C2_NoLevelBelowOne ==
    Returned => \A i \in 1..Len(new_titles) : new_titles[i].level >= 1

(* C3: _full_fix applied to the list _full_fix returned gives that list    *)
(* back (titles of the second call is the result of the first).            *)
C3_Idempotent ==
    (pc = "done" /\ call = 2) => new_titles = titles

(* C4: the returned list has the length of the argument and the same names *)
(* in the same order.                                                      *)
C4_NamesPreserved ==
    Returned =>
        /\ Len(new_titles) = Len(titles)
        /\ \A i \in 1..Len(titles) : new_titles[i].name = titles[i].name

(* C5: every _semi_fix pass that starts returns, and the loop of _full_fix *)
(* reaches a pass that changes nothing, so _full_fix returns.              *)
C5_Terminates ==
    /\ <>(pc = "done")
    /\ [](pc = "outer" => <>(pc = "compare"))
    /\ [](pc = "compare" => <>(pc = "done"))

C5_Witness ==
    /\ Returned /\ call = 1
    /\ Len(titles) >= 3
    /\ new_titles # first_title_fix(level_zero_fix(titles))

(* C6: a non-empty list has its first title at level 1 from first_title_fix *)
(* on: in every pass, in every pass result and in the returned list.       *)
C6_FirstTitleLevelOne ==
    /\ (pc \in {"outer", "inner", "compare", "done"} /\ title_list # <<>>)
          => (title_list[1].level = 1 /\ title_list[1].name = titles[1].name)
    /\ (pc \in {"outer", "inner"} /\ fixed_titles # <<>>)
          => fixed_titles[1].level = 1
    /\ (pc = "done" /\ titles # <<>>)
          => (new_titles # <<>> /\ new_titles[1].level = 1)

C6_Witness ==
    /\ Returned /\ call = 1
    /\ Len(titles) >= 2
    /\ titles[1].level = 3
    /\ new_titles[1].level = 1

(* C7: an argument that already is a valid hierarchy is returned unchanged *)
C7_ValidUnchanged ==
    (pc = "done" /\ Valid(titles)) => new_titles = titles

C7_Witness ==
    /\ pc = "done" /\ call = 1
    /\ Valid(titles)
    /\ Len(titles) >= 3
    /\ \E i \in 1..Len(titles) : titles[i].level = 3
    /\ new_titles = titles

(* C8: for a Title of level >= 1 whose name neither starts nor ends with   *)
(* "=", _get_title of the text _get_title_text produced is that Title.     *)
C8_RoundTrip ==
    (tpc = "extracted" /\ t.level >= 1 /\ NoBoundaryMarker(t.name))
        => parsed = t

(* C9: no returned level exceeds the level of the same position of the     *)
(* argument, raised by one exactly when the argument holds a level 0; nor  *)
(* does it exceed the level at that position of the list level_zero_fix    *)
(* produced.                                                               *)
C9_LevelsOnlyDecrease ==
    Returned =>
        /\ Len(new_titles) >= Len(titles)
        /\ \A i \in 1..Len(titles) :
              new_titles[i].level
                 <= titles[i].level + (IF HasZero(titles) THEN 1 ELSE 0)
        /\ Len(new_titles) = Len(level_zero_fix(titles))
        /\ \A i \in 1..Len(new_titles) :
              new_titles[i].level <= level_zero_fix(titles)[i].level

C9_Witness ==
    /\ Returned /\ call = 1
    /\ HasZero(titles)
    /\ \E i \in 1..Len(titles) : new_titles[i].level = titles[i].level + 1
    /\ \E i \in 1..Len(titles) : new_titles[i].level < titles[i].level

(* C10 as stated: after a valid prefix, a title more than one level deeper *)
(* than its predecessor is returned exactly one level deeper, the prefix   *)
(* is returned unchanged, and a next title at the predecessor's level is   *)
(* returned unchanged.                                                     *)
C10_JumpPulledBack ==
    Returned =>
        \A i \in 2..Len(titles) :
            JumpAt(titles, i) => PulledBack(titles, new_titles, i)

(* C10 amended: the same, for arguments that hold no title of level 0.     *)
C10_JumpPulledBackNoZero ==
    (Returned /\ ~HasZero(titles)) =>
        \A i \in 2..Len(titles) :
            JumpAt(titles, i) => PulledBack(titles, new_titles, i)

C10_Witness ==
    /\ Returned /\ call = 1
    /\ ~HasZero(titles)
    /\ \E i \in 3..(Len(titles) - 1) :
          /\ JumpAt(titles, i)
          /\ titles[i].level > titles[i - 1].level + 2
          /\ titles[i + 1].level = titles[i - 1].level
          /\ PulledBack(titles, new_titles, i)

====
